---- MODULE Spec2Model ----
(***************************************************************************)
(* Model of the tic-tac-toe game with move history and time travel         *)
(* (src/src/index.js): the Game component's state, its two handlers        *)
(* handleClick and jumpTo, its render method, and calculateWinner.         *)
(*                                                                         *)
(* JavaScript arrays are 0-based; TLA+ sequences are 1-based.  history is  *)
(* a sequence, so the JavaScript history[k] is history[k + 1] here.  A     *)
(* squares array is a function on 0..8, so squares[i] keeps its index.     *)
(***************************************************************************)
EXTENDS Integers, Sequences, FiniteSets

(* ------------------------------ constants ------------------------------ *)

\* Array(9): the number of squares of a board
NumSquares == 9

\* Bound: the squares the players click are 0..MaxCell
MaxCell == 5

\* Bound: a direct caller of jumpTo passes a step at most OverRange outside
\* the indices of history
OverRange == 1

\* Bound: in a game played on all the squares, the first click is on a
\* square of 0..MaxOpening
MaxOpening == 0

Squares == 0..(NumSquares - 1)

ClickCells == 0..MaxCell

\* JavaScript null
Null == "null"

Marks == {"X", "O"}

CellValues == Marks \cup {Null}

\* Array(9).fill(null)
EmptySquares == [i \in Squares |-> Null]

\* const lines of calculateWinner, in the order of the source
lines ==
    << <<0, 1, 2>>, <<3, 4, 5>>, <<6, 7, 8>>,
       <<0, 3, 6>>, <<1, 4, 7>>, <<2, 5, 8>>,
       <<0, 4, 8>>, <<2, 4, 6>> >>

(* ------------------------------- state --------------------------------- *)

VARIABLES
    history,     \* this.state.history: sequence of [squares |-> board]
    stepNumber,  \* this.state.stepNumber
    xIsNext,     \* this.state.xIsNext
    view,        \* what the last render() returned (what is on screen)
    lastOp,      \* path taken by the last handler call
    squaresArg,  \* argument of a direct call of calculateWinner
    winnerRet    \* what that call returned ("pending" before it)

game == <<history, stepNumber, xIsNext>>

probe == <<squaresArg, winnerRet>>

vars == <<history, stepNumber, xIsNext, view, lastOp, squaresArg, winnerRet>>

(* --------------------------- calculateWinner --------------------------- *)

\* the test of one line: squares[a] && squares[a] === squares[b] && ...
LineNoTruthy(squares, l) ==
    /\ squares[l[1]] = squares[l[2]]
    /\ squares[l[1]] = squares[l[3]]

LineMatches(squares, l) ==
    /\ squares[l[1]] # Null
    /\ squares[l[1]] = squares[l[2]]
    /\ squares[l[1]] = squares[l[3]]

\* the for loop of calculateWinner from index i (1-based) on
RECURSIVE winnerFrom(_, _)
winnerFrom(squares, i) ==
    IF i > Len(lines)
    THEN Null
    ELSE IF LineMatches(squares, lines[i])
         THEN squares[lines[i][1]]
         ELSE winnerFrom(squares, i + 1)

calculateWinner(squares) == winnerFrom(squares, 1)

(* ------------------------------- render -------------------------------- *)

\* Array.prototype.slice(0, end)
sliceAll(arr, end) == arr

slice(arr, end) ==
    LET n == Len(arr)
        k == IF end < 0
             THEN (IF n + end < 0 THEN 0 ELSE n + end)
             ELSE (IF end > n THEN n ELSE end)
    IN SubSeq(arr, 1, k)

\* this.state.xIsNext ? 'X' : 'O'
turnMark(x) == IF x THEN "X" ELSE "O"

\* desc of one entry of the move list
descOffByOne(move) ==
    IF move # 0 THEN <<"Go to move #", move + 1>> ELSE <<"Go to game start">>

desc(move) ==
    IF move # 0 THEN <<"Go to move #", move>> ELSE <<"Go to game start">>

\* history.map((step, move) => <li key={move}> ... jumpTo(move) ... desc)
moveList(h) == [k \in 1..Len(h) |-> [move |-> k - 1, desc |-> desc(k - 1)]]

\* const current = history[this.state.stepNumber]
currentLast(h, s) == h[Len(h)]

current(h, s) == h[s + 1]

\* the status line
statusOf(winner, x) ==
    IF winner # Null
    THEN <<winner, " wins!!!">>
    ELSE <<turnMark(x), "'s turn!">>

\* render(): history[stepNumber] is undefined outside the indices of
\* history, and reading its squares throws a TypeError
render(h, s, x) ==
    IF s + 1 \notin 1..Len(h)
    THEN [threw |-> TRUE, squares |-> <<>>, status |-> <<>>, moves |-> <<>>]
    ELSE [threw   |-> FALSE,
          squares |-> current(h, s).squares,
          status  |-> statusOf(calculateWinner(current(h, s).squares), x),
          moves   |-> moveList(h)]

(* ------------------------------ handlers ------------------------------- *)

\* the early return of handleClick
earlyReturnNoWinner(squares, i) == squares[i] # Null

earlyReturnNoOccupied(squares, i) == calculateWinner(squares) # Null

earlyReturn(squares, i) ==
    calculateWinner(squares) # Null \/ squares[i] # Null

\* stepNumber: history.length (history is the sliced copy)
newStepNumberPlusOne(h) == Len(h) + 1

newStepNumber(h) == Len(h)

\* squares = current.squares.slice(); squares[i] = mark;
\* history.concat([{squares: squares}]), current the last entry of h
concatMoveAliased(h, i, mark) ==
    LET moved == [squares |-> [h[Len(h)].squares EXCEPT ![i] = mark]]
    IN Append([h EXCEPT ![Len(h)] = moved], moved)

concatMove(h, i, mark) ==
    Append(h, [squares |-> [h[Len(h)].squares EXCEPT ![i] = mark]])

\* xIsNext: !this.state.xIsNext
nextTurnStuck(x) == x

nextTurn(x) == ~x

\* handleClick(i)
HandleClick(i) ==
    LET h == slice(history, stepNumber + 1)
    IN IF Len(h) = 0
       THEN \* history[history.length - 1] is undefined: TypeError
            /\ lastOp' = "threw"
            /\ UNCHANGED <<history, stepNumber, xIsNext, view, probe>>
       ELSE LET cur == h[Len(h)]
                squares == cur.squares
            IN IF earlyReturn(squares, i)
               THEN /\ lastOp' = "rejected"
                    /\ UNCHANGED <<history, stepNumber, xIsNext, view, probe>>
               ELSE /\ history' = concatMove(h, i, turnMark(xIsNext))
                    /\ stepNumber' = newStepNumber(h)
                    /\ xIsNext' = nextTurn(xIsNext)
                    /\ view' = render(history', stepNumber', xIsNext')
                    /\ lastOp' = "moved"
                    /\ UNCHANGED probe

\* jumpTo(step)
JumpToKeepTurn(step) ==
    /\ stepNumber' = step
    /\ xIsNext' = xIsNext
    /\ history' = history
    /\ view' = render(history', stepNumber', xIsNext')
    /\ lastOp' = "jumped"
    /\ UNCHANGED probe

JumpToTruncate(step) ==
    /\ stepNumber' = step
    /\ xIsNext' = ((step % 2) = 0)
    /\ history' = slice(history, step + 1)
    /\ view' = render(history', stepNumber', xIsNext')
    /\ lastOp' = "jumped"
    /\ UNCHANGED probe

JumpTo(step) ==
    /\ stepNumber' = step
    /\ xIsNext' = ((step % 2) = 0)
    /\ history' = history
    /\ view' = render(history', stepNumber', xIsNext')
    /\ lastOp' = "jumped"
    /\ UNCHANGED probe

(* --------------------------- specifications ---------------------------- *)

\* the constructor, then the first render
Init ==
    /\ history = << [squares |-> EmptySquares] >>
    /\ stepNumber = 0
    /\ xIsNext = TRUE
    /\ view = render(history, stepNumber, xIsNext)
    /\ lastOp = "init"
    /\ squaresArg = EmptySquares
    /\ winnerRet = "pending"

\* render() threw: React unmounts the component, nothing can call it again
Mounted == ~view.threw

\* a click on a square of the board on screen
Click == Mounted /\ \E i \in ClickCells : HandleClick(i)

\* a click on one of the buttons of the move list on screen
Jump == \E k \in DOMAIN view.moves : JumpTo(view.moves[k].move)

Next == Click \/ Jump

\* the program as its user interface drives it
Spec == Init /\ [][Next]_vars

\* a direct call of jumpTo with any step
StepInputs == (0 - OverRange)..(Len(history) - 1 + OverRange)

JumpAny == Mounted /\ \E step \in StepInputs : JumpTo(step)

NextAny == Click \/ JumpAny

\* the Game methods called directly, jumpTo with any step
SpecAny == Init /\ [][NextAny]_vars

\* a game on all the squares, without time travel
PlayCells == IF Len(history) = 1 THEN 0..MaxOpening ELSE Squares

ClickPlay == Mounted /\ \E i \in PlayCells : HandleClick(i)

NextPlay == ClickPlay

SpecPlay == Init /\ [][NextPlay]_vars

\* calculateWinner called on any board
InitDetect ==
    /\ history = << [squares |-> EmptySquares] >>
    /\ stepNumber = 0
    /\ xIsNext = TRUE
    /\ view = render(history, stepNumber, xIsNext)
    /\ lastOp = "init"
    /\ squaresArg \in [Squares -> CellValues]
    /\ winnerRet = "pending"

Detect ==
    /\ winnerRet = "pending"
    /\ winnerRet' = calculateWinner(squaresArg)
    /\ squaresArg' = squaresArg
    /\ UNCHANGED <<history, stepNumber, xIsNext, view, lastOp>>

NextDetect == Detect

SpecDetect == InitDetect /\ [][NextDetect]_vars

(* ------------------------------- claims -------------------------------- *)

\* the board at the active step, history[stepNumber].squares
AtStep == history[stepNumber + 1].squares

\* the mark of the active step's parity
ParityMark(s) == IF s % 2 = 0 THEN "X" ELSE "O"

\* C1: a click on square i when the board at the active step has a winner
\* or square i is not empty there changes nothing: history, stepNumber and
\* xIsNext are as before (so after a winning move every click is a no-op).
C1_RejectedClickIsNoOp ==
    [][\/ UNCHANGED <<history, stepNumber, xIsNext>>
       \/ LET won == calculateWinner(AtStep) # Null
          IN \A i \in ClickCells :
                 ~((won \/ AtStep[i] # Null) /\ HandleClick(i))]_vars

\* a click was rejected on a board that has a winner and an empty square
C1_Witness ==
    /\ lastOp = "rejected"
    /\ calculateWinner(AtStep) # Null
    /\ \E i \in ClickCells : AtStep[i] = Null

\* C2: an accepted click on square i from active step s gives a history of
\* exactly s + 2 snapshots: the first s + 1 are the old history[0..s], the
\* last is history[s] with the mark of s's parity on square i, the active
\* step is s + 1, and the move list offers no snapshot beyond it.
C2_AcceptedClick ==
    [][\/ calculateWinner(AtStep) # Null
       \/ \A i \in ClickCells :
              (AtStep[i] = Null /\ HandleClick(i))
                  => /\ Len(history') = stepNumber + 2
                     /\ SubSeq(history', 1, stepNumber + 1)
                            = SubSeq(history, 1, stepNumber + 1)
                     /\ history'[stepNumber + 2].squares
                            = [AtStep EXCEPT ![i] = ParityMark(stepNumber)]
                     /\ stepNumber' = stepNumber + 1
                     /\ {view'.moves[k].move : k \in DOMAIN view'.moves}
                            = 0..(stepNumber + 1)]_vars

\* a click was accepted after both players had moved
C2_Witness ==
    /\ lastOp = "moved"
    /\ stepNumber >= 3
    /\ stepNumber = Len(history) - 1

\* C3: jumpTo(step) with 0 <= step <= history.length - 1 sets stepNumber to
\* step, leaves history as it was, and makes the turn X's when step is even
\* and O's when it is odd; the board on screen is history[step].
C3_JumpInRange ==
    [][\A step \in 0..(Len(history) - 1) :
          JumpTo(step)
              => /\ stepNumber' = step
                 /\ history' = history
                 /\ xIsNext' = (step % 2 = 0)
                 /\ view'.squares = history[step + 1].squares]_vars

\* a jump landed before the end of history
C3_Witness ==
    /\ lastOp = "jumped"
    /\ stepNumber < Len(history) - 1
    /\ stepNumber % 2 = 1

\* C4: jumpTo(step) with step outside 0..history.length - 1 reports
\* OutOfRange and leaves stepNumber, xIsNext and history unchanged.
C4_OutOfRangeJumpRejected ==
    [][\A step \in StepInputs \ (0..(Len(history) - 1)) :
          JumpTo(step)
              => /\ UNCHANGED <<history, stepNumber, xIsNext>>
                 /\ lastOp' = "OutOfRange"]_vars

\* the mark of the first line, in the order of the source, whose three
\* squares hold the same mark; Null when there is none
SatisfiedLines(sq) ==
    {k \in 1..8 :
        /\ sq[lines[k][1]] \in Marks
        /\ sq[lines[k][2]] = sq[lines[k][1]]
        /\ sq[lines[k][3]] = sq[lines[k][1]]}

FirstLineMark(sq) ==
    IF SatisfiedLines(sq) = {}
    THEN Null
    ELSE LET k == CHOOSE j \in SatisfiedLines(sq) :
                      \A m \in SatisfiedLines(sq) : j <= m
         IN sq[lines[k][1]]

\* C5: on every board of 9 squares over {null, X, O}, calculateWinner
\* returns the mark of the first line, in the fixed order, whose squares
\* hold one same mark, returns null exactly when there is no such line, and
\* leaves the board as it was.
C5_FirstSatisfiedLine ==
    [][Detect
          => /\ winnerRet' = FirstLineMark(squaresArg)
             /\ (winnerRet' = Null) <=> (SatisfiedLines(squaresArg) = {})
             /\ squaresArg' = squaresArg]_vars

\* calculateWinner returned O on a board whose second row is O's and whose
\* third row is X's
C5_Witness ==
    /\ winnerRet = "O"
    /\ \A c \in {3, 4, 5} : squaresArg[c] = "O"
    /\ \A c \in {6, 7, 8} : squaresArg[c] = "X"

\* the history of a game played from the start, ms[j] the square of move j
Played(ms) ==
    [k \in 1..(Len(ms) + 1) |->
        [squares |->
            [c \in Squares |->
                IF \E j \in 1..(k - 1) : ms[j] = c
                THEN ParityMark((CHOOSE j \in 1..(k - 1) : ms[j] = c) - 1)
                ELSE Null]]]

C8_MoveList ==
    /\ Len(view.moves) = Len(history)
    /\ \A k \in 1..Len(history) :
           /\ view.moves[k].move = k - 1
           /\ view.moves[k].desc =
                  IF k = 1
                  THEN <<"Go to game start">>
                  ELSE <<"Go to move #", k - 1>>

\* the list offers moves beyond the active step
C8_Witness ==
    /\ stepNumber = 1
    /\ Len(history) = 4
    /\ view.moves[4].desc = <<"Go to move #", 3>>

\* C9: xIsNext is true exactly when stepNumber is even.
C9_TurnFollowsStep == xIsNext = (stepNumber % 2 = 0)

\* after a jump back to an odd step it is O's turn
C9_Witness ==
    /\ lastOp = "jumped"
    /\ stepNumber % 2 = 1
    /\ stepNumber < Len(history) - 1
    /\ ~xIsNext

\* C10: with jumpTo called only from the move list, stepNumber is always
\* an index of history: 0 <= stepNumber <= history.length - 1.
C10_StepIndexesHistory == 0 <= stepNumber /\ stepNumber <= Len(history) - 1

\* a jump to the last step the move list offers
C10_Witness ==
    /\ lastOp = "jumped"
    /\ stepNumber = Len(history) - 1
    /\ Len(history) >= 4

\* the squares on which two boards differ
Differ(a, b) == {c \in Squares : a[c] # b[c]}

\* C11: every snapshot history[n], n >= 1, differs from history[n - 1] in
\* exactly one square, empty in history[n - 1] and marked in history[n].
C11_OneMarkPerSnapshot ==
    \A n \in 2..Len(history) :
        LET prev == history[n - 1].squares
            this == history[n].squares
        IN /\ Cardinality(Differ(prev, this)) = 1
           /\ \A c \in Differ(prev, this) : prev[c] = Null /\ this[c] \in Marks

\* a move was made on a board that already held three marks
C11_Witness ==
    /\ lastOp = "moved"
    /\ Len(history) = 5
    /\ Cardinality(Differ(EmptySquares, history[5].squares)) = 4

\* C12: only the last snapshot of history can have a winner, so at a step
\* before the last a click is never stopped by a winner.
C12_OnlyLastSnapshotWon ==
    /\ \A k \in 1..(Len(history) - 1) : calculateWinner(history[k].squares) = Null
    /\ stepNumber < Len(history) - 1 => calculateWinner(AtStep) = Null

\* a click was rejected at an earlier step of a won game
C12_Witness ==
    /\ lastOp = "rejected"
    /\ stepNumber < Len(history) - 1
    /\ stepNumber > 0
    /\ calculateWinner(history[Len(history)].squares) # Null

\* C13: history[0] is the empty board.
C13_FirstSnapshotEmpty == history[1].squares = EmptySquares

\* moves were made and the game was taken back to an earlier step
C13_Witness ==
    /\ Len(history) >= 4
    /\ stepNumber = 2
    /\ lastOp = "jumped"
    /\ history[1].squares = EmptySquares

\* C14: an accepted click from step s leaves history[0..s] as they were, and
\* a rejected click or a jump leaves every snapshot as it was.
C14_SnapshotsImmutable ==
    [][/\ lastOp' = "moved"
            => /\ Len(history') = stepNumber + 2
               /\ \A k \in 1..(stepNumber + 1) : history'[k] = history[k]
       /\ lastOp' \in {"rejected", "jumped"} => history' = history]_vars

\* a move was made on top of two earlier snapshots with marks
C14_Witness ==
    /\ lastOp = "moved"
    /\ stepNumber = 2
    /\ history[2].squares # EmptySquares
    /\ history[3].squares # history[2].squares

\* C15: a square marked in history[i] holds the same mark in every later
\* snapshot history[j] of the current history.
C15_MarksStay ==
    \A a \in 1..Len(history) : \A b \in a..Len(history) :
        \A c \in Squares :
            history[a].squares[c] # Null
                => history[b].squares[c] = history[a].squares[c]

\* a history of five moves seen from its first move
C15_Witness ==
    /\ Len(history) = 6
    /\ stepNumber = 1
    /\ \E c \in Squares :
           history[2].squares[c] = "X" /\ history[6].squares[c] = "X"

\* the mark of line k (1-based index in lines) on a board
LineMark(sq, k) == sq[lines[k][1]]

\* the squares of line k
LineSquares(k) == {lines[k][1], lines[k][2], lines[k][3]}

Full(sq) == \A c \in Squares : sq[c] # Null

\* C16, as claimed: no snapshot of a legal game satisfies more than one of
\* the 8 lines at the same time.
C16_AtMostOneLine ==
    \A k \in 1..Len(history) :
        Cardinality(SatisfiedLines(history[k].squares)) <= 1

\* C16, amended: no snapshot of a legal game satisfies more than two lines
\* at the same time, and two are satisfied only on the full board after the
\* ninth move, both by X and both through the square of that move.
C16_AtMostTwoLines ==
    \A k \in 1..Len(history) :
        LET sq  == history[k].squares
            sat == SatisfiedLines(sq)
        IN /\ Cardinality(sat) <= 2
           /\ Cardinality(sat) = 2
                  => /\ k = 10
                     /\ Full(sq)
                     /\ \A l \in sat :
                            /\ LineMark(sq, l) = "X"
                            /\ Differ(history[k - 1].squares, sq)
                                   \subseteq LineSquares(l)

\* the ninth move completed two lines at once
C16_Witness ==
    /\ lastOp = "moved"
    /\ stepNumber = 9
    /\ Cardinality(SatisfiedLines(AtStep)) = 2

\* C17: on every snapshot all the satisfied lines hold the same mark, so
\* calculateWinner returns the mark of any satisfied line, whatever the
\* order of the lines.
C17_OneWinnerPerSnapshot ==
    \A k \in 1..Len(history) :
        LET sq == history[k].squares
        IN \A l \in SatisfiedLines(sq) :
               /\ \A m \in SatisfiedLines(sq) : LineMark(sq, m) = LineMark(sq, l)
               /\ calculateWinner(sq) = LineMark(sq, l)

\* a board with two satisfied lines, of which the first in the order of
\* the source is not the only one
C17_Witness ==
    /\ Cardinality(SatisfiedLines(AtStep)) = 2
    /\ calculateWinner(AtStep) = "X"
    /\ view.status = <<"X", " wins!!!">>
    /\ lastOp = "rejected"

\* the number of squares of a board that hold mark m
Count(sq, m) == Cardinality({c \in Squares : sq[c] = m})

\* C18: history[n] holds exactly n marks, ceil(n/2) of them X and
\* floor(n/2) of them O; history.length is at most 10 and stepNumber at
\* most 9.
C18_MarkCounts ==
    /\ \A k \in 1..Len(history) :
           /\ Count(history[k].squares, "X") = k \div 2
           /\ Count(history[k].squares, "O") = (k - 1) \div 2
           /\ Count(history[k].squares, Null) = NumSquares - (k - 1)
    /\ Len(history) <= 10
    /\ stepNumber <= 9

\* the fourth move of a game: two marks of each player
C18_Witness ==
    /\ lastOp = "moved"
    /\ stepNumber = 4
    /\ Count(AtStep, "X") = 2
    /\ Count(AtStep, "O") = 2

\* no click is accepted on the board at the active step
NoClickAccepted == \A i \in Squares : earlyReturn(AtStep, i)

\* C19: without jumpTo a game accepts at most 9 moves; every click is
\* rejected exactly when the board is won or full; the board is full at
\* step 9, and a full board without a winner shows O's turn at step 9.
C19_GameEnds ==
    /\ stepNumber = Len(history) - 1
    /\ stepNumber <= 9
    /\ stepNumber = 9 => Full(AtStep)
    /\ NoClickAccepted <=> (calculateWinner(AtStep) # Null \/ Full(AtStep))
    /\ (Full(AtStep) /\ calculateWinner(AtStep) = Null)
           => /\ stepNumber = 9
              /\ view.status = <<"O", "'s turn!">>

\* a click was rejected on a full board that nobody won
C19_Witness ==
    /\ lastOp = "rejected"
    /\ Full(AtStep)
    /\ calculateWinner(AtStep) = Null
    /\ stepNumber = 9

====
